---- MODULE Spec2Model ----
(***************************************************************************)
(* Model of the article enrichment pipeline of science-parser:             *)
(*   main.py       analyze_wiley_license_url, check_sci_hub,               *)
(*                 process_articles, main                                  *)
(*   if_parser.py  if_parser                                               *)
(*                                                                         *)
(* Conventions.                                                            *)
(*  - A Python dict is a function whose DOMAIN is the set of keys present; *)
(*    dict.get(k, default) is DictGet.                                     *)
(*  - A URL is the sequence of its path tokens (joined by "/" in the       *)
(*    program); "marker in url" is substring search inside the tokens.     *)
(*  - The Russian status strings of the program are transliterated.        *)
(*  - Python sequences are 0-based, the sequences here are 1-based.        *)
(***************************************************************************)
EXTENDS Integers, Sequences, FiniteSets, TLC

\* ---------------------------------------------------------------- bounds
MaxItems == 2      \* longest crossref_response explored
MaxUrlLen == 3     \* longest license URL (in tokens) explored

\* ------------------------------------------------------- program strings
NotChecked == "Ne provereno"       \* Article.pirate_resource set at construction
DoiNotFound == "Ne naideno"        \* default of article.get('DOI', ...)
NoDoiStatus == "Doi ne naideno"    \* check_sci_hub: no identifier
Found == "Naideno"
NotFound == "Ne naideno"           \* also the marker looked for in the body
ErrorStatus == "Oshibka"
TimeoutStatus == "Taimaut"
NoTitle == "Bez nazvaniya. Nazvanie ne naideno"

\* LicenseType(Enum): the .value strings
NOT_FREE == "NOT FREE"
FREE == "FREE"
UNKNOWN == "UNKNOWN"

\* Python values carry their type: a str never equals an Enum member.
Str(s) == [type |-> "str", val |-> s]
LicenseType(name) == [type |-> "LicenseType", val |-> name]
PyEq(a, b) == a = b

DictGet(d, k, default) == IF k \in DOMAIN d THEN d[k] ELSE default

\* ------------------------------------------------- license classification
Markers ==
  {"creativecommons.org", "wiley.com", "terms", "copyright",
   "rights-and-permissions", "subscription", "publicdomain", "pd", "cc0"}

\* Tokens a URL is made of: the markers, a mixed-case spelling, a token that
\* merely contains a marker ("pdf" contains "pd") and a neutral token.
UrlTokens == Markers \cup {"CreativeCommons.org", "WILEY.COM", "pdf", "unknown"}

\* str.lower() on one token
LowerToken(t) ==
  CASE t = "CreativeCommons.org" -> "creativecommons.org"
    [] t = "WILEY.COM" -> "wiley.com"
    [] OTHER -> t

\* str.lower() on a URL
Lower(url) == [k \in 1..Len(url) |-> LowerToken(url[k])]

\* m is a substring of the token t (case-sensitive, as Python's "in")
SubstringOf(m, t) == m = t \/ (m = "pd" /\ t = "pdf")

\* "m in url"
In(m, url) == \E k \in 1..Len(url) : SubstringOf(m, url[k])

\* analyze_wiley_license_url with the publisher check moved in front of the
\* Creative Commons check.
analyze_wiley_license_url_reordered(license_url) ==
  IF license_url = <<>> THEN UNKNOWN
  ELSE LET url_lower == Lower(license_url) IN
    IF In("wiley.com", url_lower)
       /\ (In("terms", url_lower) \/ In("copyright", url_lower)) THEN NOT_FREE
    ELSE IF In("creativecommons.org", url_lower) THEN FREE
    ELSE IF \E x \in {"rights-and-permissions", "subscription", "copyright"} :
              In(x, url_lower) THEN NOT_FREE
    ELSE IF \E x \in {"publicdomain", "pd", "cc0"} : In(x, url_lower) THEN FREE
    ELSE NOT_FREE

\* analyze_wiley_license_url with "cc0" missing from the list of open
\* licenses (line 82).
analyze_wiley_license_url_no_cc0(license_url) ==
  IF license_url = <<>> THEN UNKNOWN
  ELSE LET url_lower == Lower(license_url) IN
    IF In("creativecommons.org", url_lower) THEN FREE
    ELSE IF In("wiley.com", url_lower)
            /\ (In("terms", url_lower) \/ In("copyright", url_lower)) THEN NOT_FREE
    ELSE IF \E x \in {"rights-and-permissions", "subscription", "copyright"} :
              In(x, url_lower) THEN NOT_FREE
    ELSE IF \E x \in {"publicdomain", "pd"} : In(x, url_lower) THEN FREE
    ELSE NOT_FREE

analyze_wiley_license_url(license_url) ==
  IF license_url = <<>> THEN UNKNOWN
  ELSE LET url_lower == Lower(license_url) IN
    IF In("creativecommons.org", url_lower) THEN FREE
    ELSE IF In("wiley.com", url_lower)
            /\ (In("terms", url_lower) \/ In("copyright", url_lower)) THEN NOT_FREE
    ELSE IF \E x \in {"rights-and-permissions", "subscription", "copyright"} :
              In(x, url_lower) THEN NOT_FREE
    ELSE IF \E x \in {"publicdomain", "pd", "cc0"} : In(x, url_lower) THEN FREE
    ELSE NOT_FREE

\* ------------------------------------------------------------ exceptions
\* The classes an exception is an instance of (Python >= 3.9, which the
\* annotation tuple[str] of Article requires: CancelledError derives from
\* BaseException, asyncio.TimeoutError from Exception).
Mro(e) ==
  CASE e = "CancelledError" -> {"CancelledError", "BaseException"}
    [] OTHER -> {e, "Exception", "BaseException"}

\* Index of the first except clause that catches e, 0 when none does.
Dispatch(handlers, e) ==
  IF \E h \in 1..Len(handlers) : handlers[h] \in Mro(e)
  THEN CHOOSE h \in 1..Len(handlers) :
         /\ handlers[h] \in Mro(e)
         /\ \A g \in 1..(h - 1) : handlers[g] \notin Mro(e)
  ELSE 0

\* ------------------------------------------------------ availability probe
\* line 91: "not doi or doi == 'Ne naideno'", with the placeholder comparison
\* left out.
DoiMissing_only_empty(doi) == doi = ""

\* line 91: not doi or doi == "Ne naideno"
DoiMissing(doi) == doi = "" \/ doi = DoiNotFound

\* The except clauses of check_sci_hub in source order, and what each returns.
check_sci_hub_handlers == <<"Exception", "TimeoutError">>
check_sci_hub_returns == <<ErrorStatus, TimeoutStatus>>

\* What session.get(...) / response.text() can do for one request.
ProbeOutcomes == {"BodyWithoutMarker", "BodyWithMarker", "ClientError", "TimeoutError"}

\* The outcomes possible for a probe of doi: none is drawn when no request is
\* made; a closed session raises RuntimeError on use.
PossibleOutcomes(open, doi) ==
  IF DoiMissing(doi) THEN {"NoRequest"}
  ELSE IF ~open THEN {"RuntimeError"}
  ELSE ProbeOutcomes

\* check_sci_hub(session, doi) under a given outcome of the request:
\* result is the returned status, requested tells whether a GET went out.
check_sci_hub(open, doi, outcome) ==
  IF DoiMissing(doi) THEN [result |-> NoDoiStatus, requested |-> FALSE]
  ELSE IF outcome = "BodyWithoutMarker" THEN [result |-> Found, requested |-> TRUE]
  ELSE IF outcome = "BodyWithMarker" THEN [result |-> NotFound, requested |-> TRUE]
  ELSE LET h == Dispatch(check_sci_hub_handlers, outcome) IN
       [result |-> IF h = 0 THEN outcome ELSE check_sci_hub_returns[h],
        requested |-> open]

\* ------------------------------------------------------------- raw items
Opt(k, vals) == {<<>>} \cup {k :> v : v \in vals}

CCUrl == <<"creativecommons.org", "unknown">>
DefaultLicenseUrl == <<"unknown">>          \* line 114: {"URL": 'unknown'}

Journal1 == <<"1111-1111", "1111-2222">>    \* print ISSN, online ISSN
Journal2 == <<"3333-3333", "3333-4444">>
DefaultISSN == <<"not-found-print-issn", "not-found-online-issn">>

\* The raw items a crossref_response is drawn from.
RawItems ==
  { (("title" :> <<"T">>) @@ ("author" :> <<[given |-> "G", family |-> "F"]>>)
     @@ ("container-title" :> <<"J">>) @@ d @@ l @@ s) :
      d \in Opt("DOI", {"10.1/x"}),
      l \in Opt("license", {<<[URL |-> CCUrl]>>}),
      s \in Opt("ISSN", {Journal1, Journal2, <<"1111-1111">>}) }

SeqsUpTo(S, n) == UNION {[1..k -> S] : k \in 0..n}

\* ---------------------------------------------------- building one record
\* "given family".strip(): the non-empty parts, joined by one space
AuthorName(a) ==
  SelectSeq(<<DictGet(a, "given", ""), DictGet(a, "family", "")>>,
            LAMBDA x : x # "")

\* lines 111-117: the subscripts that raise IndexError
BuildRaises(article) ==
  \/ Len(DictGet(article, "title", <<NoTitle>>)) < 1
  \/ Len(DictGet(article, "license", <<[URL |-> DefaultLicenseUrl]>>)) < 1
  \/ Len(DictGet(article, "container-title", <<"">>)) < 1
  \/ Len(DictGet(article, "ISSN", DefaultISSN)) < 2

\* lines 111-129: the Article built from one raw item
MakeArticle(article) ==
  LET title == DictGet(article, "title", <<NoTitle>>)[1]
      authors == DictGet(article, "author", <<>>)
      author_names == [k \in 1..(IF Len(authors) < 2 THEN Len(authors) ELSE 2) |->
                         AuthorName(authors[k])]
      license == analyze_wiley_license_url(
                   DictGet(article, "license", <<[URL |-> DefaultLicenseUrl]>>)[1].URL)
      journal_title == DictGet(article, "container-title", <<"">>)[1]
      journal_issn == DictGet(article, "ISSN", DefaultISSN)[2]
      doi == DictGet(article, "DOI", DoiNotFound)
  IN [issn |-> journal_issn, title |-> title, authors |-> author_names,
      access |-> license, journal_title |-> journal_title,
      journal_issn |-> journal_issn, doi |-> doi,
      pirate_resource |-> NotChecked, impact_factor |-> -1]

\* line 132: the catalog slug of a journal (title with "+", "-p-", ISSN digits)
Slug(journal_title, journal_issn) == <<journal_title, "-p-", journal_issn>>

\* line 133: len(pirate_resources) > 0 and license != LicenseType.FREE
NeedsProbe(resources, license) ==
  Len(resources) > 0 /\ ~PyEq(Str(license), LicenseType(FREE))

\* lines 138-140: the record that receives the result of the k-th task, with
\* the loop variable of the building loop used instead of the paired record.
JoinTarget_last(ts, k, n) == n

\* lines 138-140: the record that receives the result of the k-th task
JoinTarget(ts, k, n) == ts[k].article

\* ------------------------------------------------------------- resolver
PageScores == {3}
CatalogOutcomes == {"Score", "HTTPError", "Timeout", "OtherError", "LayoutChanged"}

\* ----------------------------------------------------------------- state
VARIABLES
  pirate_resources,   \* criteria.pirate_resources
  crossref_response,  \* data['message']['items']
  pc,                 \* where main / process_articles stands
  i,                  \* index of the building loop (1-based)
  data_articles,      \* the Article objects, in creation order
  journal_fullname,   \* dict issn -> slug, as its items in insertion order
  tasks,              \* list of (article_obj, task)
  session_open,       \* the aiohttp session of process_articles
  jpos,               \* index of the joining loop
  if_list,            \* if_parser's result dict
  rpos,               \* index of if_parser's loop
  lookups,            \* ISSN keys for which requests.get was called
  exc,                \* the exception propagating out of the try body of main
  main_result,        \* what main returned ("running" before)
  timeout_reports,    \* how often main printed its timeout message
  out_of_order,       \* some probe finished while an earlier one was pending
  license_url,        \* classifier run: the input
  classified,         \* classifier run: the result ("none" before)
  validation_errors,  \* SearchCriteriaParser.validation_errors
  json_data,          \* the argument of the latest parse_json call
  parse_result,       \* what the latest parse_json call returned
  calls               \* number of parse_json calls on the parser so far

vars == <<pirate_resources, crossref_response, pc, i, data_articles,
          journal_fullname, tasks, session_open, jpos, if_list, rpos, lookups,
          exc, main_result, timeout_reports, out_of_order, license_url,
          classified, validation_errors, json_data, parse_result, calls>>

inputs == <<pirate_resources, crossref_response>>
classifier == <<license_url, classified>>
parser == <<validation_errors, json_data, parse_result, calls>>

Init ==
  /\ pirate_resources \in {<<>>, <<"sci-hub">>}
  /\ crossref_response \in SeqsUpTo(RawItems, MaxItems)
  /\ pc = "fetch"
  /\ i = 1
  /\ data_articles = <<>>
  /\ journal_fullname = <<>>
  /\ tasks = <<>>
  /\ session_open = FALSE
  /\ jpos = 1
  /\ if_list = <<>>
  /\ rpos = 1
  /\ lookups = <<>>
  /\ exc = "none"
  /\ main_result = "running"
  /\ timeout_reports = 0
  /\ out_of_order = FALSE
  /\ license_url = <<>>
  /\ classified = "none"
  /\ validation_errors = <<>>
  /\ json_data = [type |-> "none"]
  /\ parse_result = [kind |-> "none"]
  /\ calls = 0

\* ------------------------------------------------------------------ main
\* The except clauses of main in source order (lines 252-257), and what main
\* returns from each.
main_handlers == <<"TimeoutError", "Exception">>
main_returns == <<"1", "[]">>

\* line 207: data = await fetch_crossref_data(...); the search either yields
\* the items or raises (its timeout, or a transport error).
Fetch ==
  /\ pc = "fetch"
  /\ \E outcome \in {"Items", "TimeoutError", "ClientError"} :
       IF outcome = "Items"
       THEN /\ pc' = "build"
            /\ session_open' = TRUE          \* line 108: async with ... as session
            /\ exc' = exc
       ELSE /\ pc' = "raised"
            /\ exc' = outcome
            /\ session_open' = session_open
  /\ UNCHANGED <<inputs, i, data_articles, journal_fullname, tasks, jpos,
                 if_list, rpos, lookups, main_result, timeout_reports,
                 out_of_order, classifier, parser>>

\* ------------------------------------------------------ process_articles
\* lines 110-135: one iteration of the building loop
Build ==
  /\ pc = "build"
  /\ i <= Len(crossref_response)
  /\ LET article == crossref_response[i] IN
     IF BuildRaises(article)
     THEN \* IndexError leaves the async with block: the session is closed,
          \* the tasks created so far are neither awaited nor cancelled
          /\ pc' = "raised"
          /\ exc' = "IndexError"
          /\ session_open' = FALSE
          /\ UNCHANGED <<i, data_articles, journal_fullname, tasks>>
     ELSE LET article_obj == MakeArticle(article)
              known == \E k \in 1..Len(journal_fullname) :
                          journal_fullname[k].issn = article_obj.journal_issn
          IN /\ data_articles' = Append(data_articles, article_obj)
             /\ journal_fullname' =
                  IF known THEN journal_fullname
                  ELSE Append(journal_fullname,
                              [issn |-> article_obj.journal_issn,
                               name |-> Slug(article_obj.journal_title,
                                             article_obj.journal_issn)])
             /\ tasks' =
                  IF NeedsProbe(pirate_resources, article_obj.access)
                  THEN Append(tasks, [article |-> i, doi |-> article_obj.doi,
                                      state |-> "pending", outcome |-> "none",
                                      result |-> "none", requested |-> FALSE])
                  ELSE tasks
             /\ i' = i + 1
             /\ UNCHANGED <<pc, exc, session_open>>
  /\ UNCHANGED <<inputs, jpos, if_list, rpos, lookups, main_result,
                 timeout_reports, out_of_order, classifier, parser>>

\* line 138: the building loop is exhausted, the joining loop starts
StartJoin ==
  /\ pc = "build"
  /\ i > Len(crossref_response)
  /\ pc' = "join"
  /\ UNCHANGED <<inputs, i, data_articles, journal_fullname, tasks,
                 session_open, jpos, if_list, rpos, lookups, exc, main_result,
                 timeout_reports, out_of_order, classifier, parser>>

\* One probe task runs check_sci_hub to its end.  Tasks only run while the
\* coroutine of main is suspended: at "await task" (line 139), or while the
\* async with block is being left (the session is closed by then).
TaskRun ==
  /\ main_result = "running"
  /\ pc \in {"join", "raised"}
  /\ \E t \in 1..Len(tasks) :
       /\ tasks[t].state = "pending"
       /\ \E outcome \in PossibleOutcomes(session_open, tasks[t].doi) :
            LET r == check_sci_hub(session_open, tasks[t].doi, outcome) IN
            tasks' = [tasks EXCEPT ![t].state = "done",
                                   ![t].outcome = outcome,
                                   ![t].result = r.result,
                                   ![t].requested = r.requested]
       /\ out_of_order' = (out_of_order
                            \/ \E s \in 1..(t - 1) : tasks[s].state = "pending")
  /\ UNCHANGED <<inputs, pc, i, data_articles, journal_fullname, session_open,
                 jpos, if_list, rpos, lookups, exc, main_result,
                 timeout_reports, classifier, parser>>

\* lines 138-140: pirate_result = await task; article_obj.pirate_resource = ...
Join ==
  /\ pc = "join"
  /\ jpos <= Len(tasks)
  /\ tasks[jpos].state = "done"
  /\ LET a == JoinTarget(tasks, jpos, Len(data_articles)) IN
     data_articles' = [data_articles EXCEPT ![a].pirate_resource = tasks[jpos].result]
  /\ jpos' = jpos + 1
  /\ UNCHANGED <<inputs, pc, i, journal_fullname, tasks, session_open, if_list,
                 rpos, lookups, exc, main_result, timeout_reports,
                 out_of_order, classifier, parser>>

\* The task running main is cancelled while it is suspended at line 139
\* (asyncio.run cancels it on an interrupt): the awaited probe is cancelled
\* with it, CancelledError leaves the async with block, the other tasks are
\* left as they are.
Cancel ==
  /\ pc = "join"
  /\ jpos <= Len(tasks)
  /\ tasks[jpos].state = "pending"
  /\ tasks' = [tasks EXCEPT ![jpos].state = "cancelled"]
  /\ pc' = "raised"
  /\ exc' = "CancelledError"
  /\ session_open' = FALSE
  /\ UNCHANGED <<inputs, i, data_articles, journal_fullname, jpos, if_list,
                 rpos, lookups, main_result, timeout_reports, out_of_order,
                 classifier, parser>>

\* lines 140-142: the joining loop is exhausted, the session is closed and
\* if_parser(journal_fullname) is called
EndJoin ==
  /\ pc = "join"
  /\ jpos > Len(tasks)
  /\ session_open' = FALSE
  /\ pc' = IF Len(journal_fullname) = 0 THEN "merge" ELSE "if_parser"
  /\ UNCHANGED <<inputs, i, data_articles, journal_fullname, tasks, jpos,
                 if_list, rpos, lookups, exc, main_result, timeout_reports,
                 out_of_order, classifier, parser>>

\* if_parser.py lines 15-45: one iteration of the loop over the journals
IfParserStep ==
  /\ pc = "if_parser"
  /\ rpos <= Len(journal_fullname)
  /\ LET issn == journal_fullname[rpos].issn IN
     /\ lookups' = Append(lookups, issn)                  \* line 19: requests.get
     /\ \E outcome \in CatalogOutcomes :
          CASE outcome \in {"HTTPError", "Timeout", "OtherError"} ->
                 /\ if_list' = if_list @@ (issn :> -1)    \* lines 25, 29, 33
                 /\ rpos' = rpos + 1
                 /\ pc' = IF rpos = Len(journal_fullname) THEN "merge" ELSE pc
            [] outcome = "Score" ->
                 /\ \E score \in PageScores : if_list' = if_list @@ (issn :> score)
                 /\ rpos' = rpos + 1
                 /\ pc' = IF rpos = Len(journal_fullname) THEN "merge" ELSE pc
            [] outcome = "LayoutChanged" ->                \* lines 43-45: break
                 /\ if_list' = if_list
                 /\ rpos' = rpos
                 /\ pc' = "merge"
  /\ UNCHANGED <<inputs, i, data_articles, journal_fullname, tasks,
                 session_open, jpos, exc, main_result, timeout_reports,
                 out_of_order, classifier, parser>>

\* The first record whose journal has no entry in if_by_journal (0: none)
FirstUnresolved(articles, if_by_journal) ==
  LET missing == {k \in 1..Len(articles) :
                    articles[k].journal_issn \notin DOMAIN if_by_journal}
  IN IF missing = {} THEN 0
     ELSE CHOOSE k \in missing : \A m \in missing : k <= m

\* lines 144-147: the scores are written to the records in order; a missing
\* key raises KeyError at the first record concerned
Merge ==
  /\ pc = "merge"
  /\ LET stop == FirstUnresolved(data_articles, if_list) IN
     /\ data_articles' =
          [k \in 1..Len(data_articles) |->
             IF stop = 0 \/ k < stop
             THEN [data_articles[k] EXCEPT
                     !.impact_factor = if_list[data_articles[k].journal_issn]]
             ELSE data_articles[k]]
     /\ pc' = IF stop = 0 THEN "returned" ELSE "raised"
     /\ exc' = IF stop = 0 THEN exc ELSE "KeyError"
  /\ UNCHANGED <<inputs, i, journal_fullname, tasks, session_open, jpos,
                 if_list, rpos, lookups, main_result, timeout_reports,
                 out_of_order, classifier, parser>>

\* main.py lines 212-257: process_articles returned (main goes on to the
\* output and returns 0) or the try body raised
MainEnd ==
  /\ main_result = "running"
  /\ pc \in {"returned", "raised"}
  /\ IF pc = "returned"
     THEN /\ main_result' = "0"
          /\ timeout_reports' = timeout_reports
     ELSE LET h == Dispatch(main_handlers, exc) IN
          /\ main_result' = IF h = 0 THEN exc ELSE main_returns[h]
          /\ timeout_reports' = IF h = 1 THEN timeout_reports + 1
                                ELSE timeout_reports
  /\ UNCHANGED <<inputs, pc, i, data_articles, journal_fullname, tasks,
                 session_open, jpos, if_list, rpos, lookups, exc,
                 out_of_order, classifier, parser>>

\* main.py lines 263-265: asyncio.run cancels the tasks still pending when
\* main is over
LoopShutdown ==
  /\ main_result # "running"
  /\ \E t \in 1..Len(tasks) : tasks[t].state = "pending"
  /\ tasks' = [t \in 1..Len(tasks) |->
                 IF tasks[t].state = "pending"
                 THEN [tasks[t] EXCEPT !.state = "cancelled"]
                 ELSE tasks[t]]
  /\ UNCHANGED <<inputs, pc, i, data_articles, journal_fullname, session_open,
                 jpos, if_list, rpos, lookups, exc, main_result,
                 timeout_reports, out_of_order, classifier, parser>>

Next ==
  \/ Fetch
  \/ Build
  \/ StartJoin
  \/ TaskRun
  \/ Join
  \/ Cancel
  \/ EndJoin
  \/ IfParserStep
  \/ Merge
  \/ MainEnd
  \/ LoopShutdown

Spec == Init /\ [][Next]_vars

\* ------------------------------------------- the classifier on its own
\* The license URLs explored: every sequence of at most MaxUrlLen tokens.
LicenseUrls == SeqsUpTo(UrlTokens, MaxUrlLen)

InitClassify ==
  /\ license_url \in LicenseUrls
  /\ classified = "none"
  /\ pirate_resources = <<>>
  /\ crossref_response = <<>>
  /\ pc = "classify"
  /\ i = 1
  /\ data_articles = <<>>
  /\ journal_fullname = <<>>
  /\ tasks = <<>>
  /\ session_open = FALSE
  /\ jpos = 1
  /\ if_list = <<>>
  /\ rpos = 1
  /\ lookups = <<>>
  /\ exc = "none"
  /\ main_result = "running"
  /\ timeout_reports = 0
  /\ out_of_order = FALSE
  /\ validation_errors = <<>>
  /\ json_data = [type |-> "none"]
  /\ parse_result = [kind |-> "none"]
  /\ calls = 0

\* main.py line 114: the classifier is applied to the URL
Classify ==
  /\ pc = "classify"
  /\ classified = "none"
  /\ classified' = analyze_wiley_license_url(license_url)
  /\ UNCHANGED <<inputs, pc, i, data_articles, journal_fullname, tasks,
                 session_open, jpos, if_list, rpos, lookups, exc, main_result,
                 timeout_reports, out_of_order, license_url, parser>>

NextClassify == Classify

SpecClassify == InitClassify /\ [][NextClassify]_vars

\* ------------------------------------------ json_parser.py: the parser
MaxCalls == 2        \* parse_json calls explored on one parser instance
CurrentYear == 2026  \* datetime.now().year

\* Decoded JSON values carry their Python type; a str is the sequence of its
\* characters.
PStr(chars) == [type |-> "str", chars |-> chars]
PInt == [type |-> "int"]
PList(items) == [type |-> "list", items |-> items]
PDict(fields) == [type |-> "dict", fields |-> fields]
InvalidJson == [type |-> "invalid"]      \* text json.loads cannot decode

Digits == {"0", "1", "2", "3", "4", "5", "6", "7", "8", "9"}

\* int() of one digit
DigitVal(c) ==
  CASE c = "0" -> 0 [] c = "1" -> 1 [] c = "2" -> 2 [] c = "3" -> 3
    [] c = "4" -> 4 [] c = "5" -> 5 [] c = "6" -> 6 [] c = "7" -> 7
    [] c = "8" -> 8 [] c = "9" -> 9

\* code point order of the characters used (" " < "-" < digits < "X")
Ord(c) ==
  CASE c = " " -> 32 [] c = "-" -> 45 [] c = "X" -> 88 [] c = "k" -> 107
    [] OTHER -> 48 + DigitVal(c)

\* str.strip()
Strip(chars) ==
  LET keep == {k \in 1..Len(chars) : chars[k] # " "} IN
  IF keep = {} THEN <<>>
  ELSE LET first == CHOOSE k \in keep : \A m \in keep : k <= m
           last == CHOOSE k \in keep : \A m \in keep : m <= k
       IN SubSeq(chars, first, last)

\* a > b on str (lexicographic by code point)
RECURSIVE StrGreater(_, _)
StrGreater(a, b) ==
  IF a = <<>> THEN FALSE
  ELSE IF b = <<>> THEN TRUE
  ELSE IF Ord(Head(a)) # Ord(Head(b)) THEN Ord(Head(a)) > Ord(Head(b))
  ELSE StrGreater(Tail(a), Tail(b))

\* _add_error / validation_errors.append: one more entry
AddError(errs, error_type, field_name) ==
  Append(errs, [error_type |-> error_type, field_name |-> field_name])

\* line 165: re.match(r'^\d{4}-\d{3}[\dX]$', issn)
IssnFormat(issn) ==
  /\ Len(issn) = 9
  /\ \A k \in {1, 2, 3, 4, 6, 7, 8} : issn[k] \in Digits
  /\ issn[5] = "-"
  /\ issn[9] \in Digits \cup {"X"}

\* lines 186-192: _validate_issn_checksum
RECURSIVE ChecksumTotal(_, _)
ChecksumTotal(digits, k) ==
  IF k > Len(digits) THEN 0
  ELSE (IF digits[k] = "X" THEN 10 ELSE DigitVal(digits[k])) * (8 - (k - 1))
       + ChecksumTotal(digits, k + 1)

validate_issn_checksum(issn) ==
  LET digits == SelectSeq(issn, LAMBDA c : c # "-") IN
  ChecksumTotal(digits, 1) % 11 = 0

\* lines 144-183: _parse_journal_issn; gives the error list and the value
parse_journal_issn(errs, issn_data) ==
  IF issn_data.type # "str"
  THEN [errs |-> AddError(errs, "INVALID_FIELD_TYPE", "journal_issn"), val |-> <<>>]
  ELSE LET issn == Strip(issn_data.chars) IN
    IF issn = <<>>
    THEN [errs |-> AddError(errs, "INVALID_ISSN_FORMAT", "journal_issn"), val |-> <<>>]
    ELSE IF ~IssnFormat(issn)
    THEN [errs |-> AddError(errs, "INVALID_ISSN_FORMAT", "journal_issn"), val |-> issn]
    ELSE IF ~validate_issn_checksum(issn)
    THEN [errs |-> AddError(errs, "INVALID_ISSN_CHECKSUM", "journal_issn"), val |-> issn]
    ELSE [errs |-> errs, val |-> issn]

\* lines 198-208 and 277-286: the loop over the entries of a list of strings;
\* every entry that is no str adds an error, the stripped non-empty ones are kept
RECURSIVE ParseStrings(_, _, _, _)
ParseStrings(errs, items, k, what) ==
  IF k > Len(items) THEN [errs |-> errs, val |-> <<>>]
  ELSE IF items[k].type # "str"
  THEN ParseStrings(AddError(errs, "str", what), items, k + 1, what)
  ELSE LET rest == ParseStrings(errs, items, k + 1, what)
           cleaned == Strip(items[k].chars)
       IN [errs |-> rest.errs,
           val |-> IF cleaned # <<>> THEN <<cleaned>> \o rest.val ELSE rest.val]

\* lines 194-213: _parse_keywords
parse_keywords(errs, keywords_data) ==
  IF keywords_data.type # "list"
  THEN [errs |-> AddError(errs, "str", "keywords"), val |-> <<>>]
  ELSE LET r == ParseStrings(errs, keywords_data.items, 1, "keywords") IN
       IF r.val = <<>>
       THEN [errs |-> AddError(r.errs, "str", "keywords"), val |-> r.val]
       ELSE r

\* line 236: re.match(r'^\d{4}-\d{2}$', date_str)
DateFormat(d) ==
  /\ Len(d) = 7
  /\ \A k \in {1, 2, 3, 4, 6, 7} : d[k] \in Digits
  /\ d[5] = "-"

\* line 246: year, month = map(int, date_str.split('-'))
Year(d) == 1000 * DigitVal(d[1]) + 100 * DigitVal(d[2]) + 10 * DigitVal(d[3]) + DigitVal(d[4])
Month(d) == 10 * DigitVal(d[6]) + DigitVal(d[7])

\* lines 215-271: _parse_date (int() cannot fail on a string the pattern
\* accepted, so the ValueError clause is never entered)
parse_date(errs, date_data, field_name) ==
  IF date_data.type # "str"
  THEN [errs |-> AddError(errs, "INVALID_FIELD_TYPE", field_name), val |-> <<>>]
  ELSE LET date_str == Strip(date_data.chars) IN
    IF date_str = <<>>
    THEN [errs |-> AddError(errs, "INVALID_DATE_FORMAT", field_name), val |-> <<>>]
    ELSE IF ~DateFormat(date_str)
    THEN [errs |-> AddError(errs, "INVALID_DATE_FORMAT", field_name), val |-> date_str]
    ELSE LET e1 == IF Month(date_str) < 1 \/ Month(date_str) > 12
                   THEN AddError(errs, "INVALID_MONTH", field_name) ELSE errs
             e2 == IF Year(date_str) < 1900 \/ Year(date_str) > CurrentYear + 5
                   THEN AddError(e1, "INVALID_YEAR", field_name) ELSE e1
         IN [errs |-> e2, val |-> date_str]

\* lines 274-288: _parse_resources
parse_resources(errs, resources_data) ==
  IF resources_data.type # "list"
  THEN [errs |-> AddError(errs, "str", "pirate_resources"), val |-> <<>>]
  ELSE ParseStrings(errs, resources_data.items, 1, "pirate_resources")

\* line 126
required_fields == <<"journal_issn", "keywords", "time_from", "time_to", "pirate_resources">>

\* lines 129-139: one MISSING_REQUIRED_FIELD error per missing field, in order
RECURSIVE MissingErrors(_, _, _)
MissingErrors(errs, present, k) ==
  IF k > Len(required_fields) THEN errs
  ELSE MissingErrors(IF required_fields[k] \in present THEN errs
                     ELSE AddError(errs, "MISSING_REQUIRED_FIELD", required_fields[k]),
                     present, k + 1)

\* line 105: "if self.validation_errors", with the test left out
HasErrors_never(errs) == FALSE

\* line 105: if self.validation_errors
HasErrors(errs) == errs # <<>>

None == [kind |-> "None"]

\* lines 83-122: parse_dict; gives the error list, and the value returned or
\* the exception raised.  "field not in data" is key membership on a dict,
\* element membership on a list and a TypeError on an int; data['...'] on a
\* list is a TypeError.
parse_dict(errs, data) ==
  IF data.type = "int"
  THEN [errs |-> errs, raised |-> "TypeError", val |-> None]
  ELSE LET present == IF data.type = "dict" THEN DOMAIN data.fields
                      ELSE {required_fields[k] : k \in
                              {j \in 1..Len(required_fields) :
                                 \E m \in 1..Len(data.items) :
                                   data.items[m] = PStr(<<required_fields[j]>>)}}
           e0 == MissingErrors(errs, present, 1)
       IN IF e0 # errs
          THEN [errs |-> e0, raised |-> "none", val |-> None]      \* line 87
          ELSE IF data.type # "dict"
          THEN [errs |-> e0, raised |-> "TypeError", val |-> None] \* line 90
          ELSE
            LET journal_issn == parse_journal_issn(e0, data.fields["journal_issn"])
                keywords == parse_keywords(journal_issn.errs, data.fields["keywords"])
                time_from == parse_date(keywords.errs, data.fields["time_from"], "time_from")
                time_to == parse_date(time_from.errs, data.fields["time_to"], "time_to")
                pirate == parse_resources(time_to.errs, data.fields["pirate_resources"])
                e1 == IF /\ time_from.val # <<>>
                         /\ time_to.val # <<>>
                         /\ StrGreater(time_from.val, time_to.val)
                      THEN AddError(pirate.errs, "DATE_RANGE_INVALID", "none")
                      ELSE pirate.errs
            IN IF HasErrors(e1)
               THEN [errs |-> e1, raised |-> "none", val |-> None]
               ELSE [errs |-> e1, raised |-> "none",
                     val |-> [kind |-> "SearchCriteria",
                              journal_issn |-> journal_issn.val,
                              keywords |-> keywords.val,
                              time_from |-> time_from.val,
                              time_to |-> time_to.val,
                              pirate_resources |-> pirate.val]]

\* lines 59-74: parse_json
parse_json(errs, text) ==
  IF text.type = "invalid"
  THEN [errs |-> AddError(errs, "JSON_DECODE_ERROR", "none"), val |-> None]
  ELSE LET r == parse_dict(errs, text) IN
       IF r.raised # "none"
       THEN [errs |-> AddError(r.errs, "UNEXPECTED_ERROR", "none"), val |-> None]
       ELSE [errs |-> r.errs, val |-> r.val]

\* ------------------------------------------------- the documents explored
ValidFields ==
  [journal_issn |-> PStr(<<"0", "3", "7", "8", "-", "5", "9", "5", "5">>),
   keywords |-> PList(<<PStr(<<"k">>)>>),
   time_from |-> PStr(<<"2", "0", "2", "0", "-", "0", "1">>),
   time_to |-> PStr(<<"2", "0", "2", "3", "-", "1", "2">>),
   pirate_resources |-> PList(<<PStr(<<"k">>)>>)]

\* ValidFields with one field given another value
With(field, value) == PDict([ValidFields EXCEPT ![field] = value])

\* ValidFields without one field
Without(field) ==
  PDict([k \in (DOMAIN ValidFields) \ {field} |-> ValidFields[k]])

\* documents the parser has to accept
GoodDocs ==
  {PDict(ValidFields),
   With("journal_issn", PStr(<<" ", "0", "3", "7", "8", "-", "5", "9", "5", "5", " ">>)),
   With("journal_issn", PStr(<<"2", "4", "3", "4", "-", "5", "6", "1", "X">>)),
   With("time_from", PStr(<<"2", "0", "2", "3", "-", "1", "2">>)),
   With("pirate_resources", PList(<<>>)),
   With("pirate_resources", PList(<<PStr(<<" ">>)>>))}

\* documents with one thing wrong
BadDocs ==
  {InvalidJson, PInt, PList(<<>>),
   PList([k \in 1..Len(required_fields) |-> PStr(<<required_fields[k]>>)])}
  \cup {Without(required_fields[k]) : k \in 1..Len(required_fields)}
  \cup {With("journal_issn", v) :
          v \in {PInt, PStr(<<" ">>), PStr(<<"1", "2", "3", "4">>), PStr(<<"1", "2", "3", "4", "-", "5", "6", "7", "8">>)}}
  \cup {With("keywords", v) :
          v \in {PInt, PList(<<>>), PList(<<PInt>>), PList(<<PStr(<<" ">>)>>),
                 PList(<<PStr(<<"k">>), PInt>>)}}
  \cup {With("time_from", v) :
          v \in {PInt, PStr(<<>>), PStr(<<"2", "0", "2", "0">>), PStr(<<"2", "0", "2", "0", "-", "1", "3">>),
                 PStr(<<"1", "8", "0", "0", "-", "0", "1">>), PStr(<<"2", "0", "2", "4", "-", "0", "6">>)}}
  \cup {With("time_to", v) : v \in {PInt, PStr(<<"2", "0", "2", "3", "-", "0", "0">>), PStr(<<"2", "0", "4", "0", "-", "0", "1">>)}}
  \cup {With("pirate_resources", v) : v \in {PInt, PList(<<PInt>>)}}

Docs == GoodDocs \cup BadDocs

InitParser ==
  /\ validation_errors = <<>>              \* line 54
  /\ json_data = [type |-> "none"]
  /\ parse_result = [kind |-> "none"]
  /\ calls = 0
  /\ license_url = <<>>
  /\ classified = "none"
  /\ pirate_resources = <<>>
  /\ crossref_response = <<>>
  /\ pc = "parser"
  /\ i = 1
  /\ data_articles = <<>>
  /\ journal_fullname = <<>>
  /\ tasks = <<>>
  /\ session_open = FALSE
  /\ jpos = 1
  /\ if_list = <<>>
  /\ rpos = 1
  /\ lookups = <<>>
  /\ exc = "none"
  /\ main_result = "running"
  /\ timeout_reports = 0
  /\ out_of_order = FALSE

\* one call parser.parse_json(json_data) on the same parser instance
ParseJson ==
  /\ pc = "parser"
  /\ calls < MaxCalls
  /\ \E text \in Docs :
       LET r == parse_json(validation_errors, text) IN
       /\ json_data' = text
       /\ validation_errors' = r.errs
       /\ parse_result' = r.val
  /\ calls' = calls + 1
  /\ UNCHANGED <<inputs, pc, i, data_articles, journal_fullname, tasks,
                 session_open, jpos, if_list, rpos, lookups, exc, main_result,
                 timeout_reports, out_of_order, classifier>>

NextParser == ParseJson

SpecParser == InitParser /\ [][NextParser]_vars

\* ======================================================= properties
Enabled == Len(pirate_resources) > 0

\* process_articles is over (it returned or it raised)
ProcessOver == pc \in {"returned", "raised"} /\ exc \notin {"TimeoutError", "ClientError"}

\* the tasks launched for record k
TasksOf(k) == {t \in 1..Len(tasks) : tasks[t].article = k}

DoiAbsent(k) == "DOI" \notin DOMAIN crossref_response[k]
LicenseAbsent(k) == "license" \notin DOMAIN crossref_response[k]
IssnAbsent(k) == "ISSN" \notin DOMAIN crossref_response[k]

\* if_parser stopped at a page whose layout it could not read: the journal
\* looked up last has no entry in its result
LayoutFailed ==
  /\ pc \in {"merge", "returned", "raised"}
  /\ lookups # <<>>
  /\ lookups[Len(lookups)] \notin DOMAIN if_list

\* C1: with probing enabled no probe task is ever created for a record whose
\* access is FREE, and such a record ends the run as "not probed".
C1_NoProbeForFree ==
  Enabled =>
    /\ \A t \in 1..Len(tasks) : data_articles[tasks[t].article].access # FREE
    /\ pc = "returned" =>
         \A k \in 1..Len(data_articles) :
           data_articles[k].access = FREE =>
             data_articles[k].pirate_resource = NotChecked

\* C2: when if_parser stops at an unreadable page after it resolved an earlier
\* journal of the batch, process_articles still returns all records: a journal resolved before
\* the failure gives its score, every other journal gives -1, access and
\* availability are as built and joined.
C2_LayoutFailureDegrades ==
  (/\ LayoutFailed
   /\ Len(journal_fullname) >= 2
   /\ Len(lookups) >= 2
   /\ \A k \in 1..Len(data_articles) : ~IssnAbsent(k)
   /\ pc # "merge") =>
    /\ pc = "returned"
    /\ Len(data_articles) = Len(crossref_response)
    /\ \A k \in 1..Len(data_articles) :
         LET a == data_articles[k] IN
         /\ a.impact_factor = DictGet(if_list, a.journal_issn, -1)
         /\ a.access = MakeArticle(crossref_response[k]).access
         /\ \A t \in TasksOf(k) : a.pirate_resource = tasks[t].result

\* C3: the returned list has one record per raw item, in input order, each
\* built from its own item and carrying the result of its own probe (or
\* "not probed" when none was launched for it).
C3_OrderPreserved ==
  pc = "returned" =>
    /\ Len(data_articles) = Len(crossref_response)
    /\ \A k \in 1..Len(data_articles) :
         LET a == data_articles[k]
             built == MakeArticle(crossref_response[k])
         IN /\ [a EXCEPT !.pirate_resource = NotChecked, !.impact_factor = -1] = built
            /\ Cardinality(TasksOf(k)) <= 1
            /\ \A t \in TasksOf(k) :
                 /\ tasks[t].doi = built.doi
                 /\ tasks[t].state = "done"
                 /\ a.pirate_resource = tasks[t].result
            /\ TasksOf(k) = {} => a.pirate_resource = NotChecked

\* C3 witness: a run returned in which a later probe finished before an earlier
\* one and two records carry different probe results.
C3_Witness ==
  /\ pc = "returned"
  /\ out_of_order
  /\ Len(tasks) >= 2
  /\ tasks[1].result # tasks[2].result
  /\ data_articles[tasks[1].article].pirate_resource = tasks[1].result
  /\ data_articles[tasks[2].article].pirate_resource = tasks[2].result

\* C4 as written: for a raw item without DOI no probe is invoked, no request is
\* made, and the record ends as "no identifier", probing enabled or not.
\* (Stated for the records that are not FREE; probes of FREE records are the
\* subject of C1.)
C4_NoProbeNoIdentifier ==
  \A k \in 1..Len(data_articles) :
    (DoiAbsent(k) /\ data_articles[k].access # FREE) =>
      /\ TasksOf(k) = {}
      /\ pc = "returned" => data_articles[k].pirate_resource = NoDoiStatus

\* C4 amended: for a raw item without DOI no request is ever made; when a probe
\* is launched for it (probing enabled, record not FREE) the probe returns at
\* once and the record ends as "no identifier"; with probing disabled no probe
\* is launched and the record ends as "not probed".
C4_NoRequestWithoutDoi ==
  \A k \in 1..Len(data_articles) :
    DoiAbsent(k) =>
      /\ \A t \in TasksOf(k) : ~tasks[t].requested
      /\ (Enabled /\ data_articles[k].access # FREE) => TasksOf(k) # {}
      /\ ~Enabled => TasksOf(k) = {}
      /\ pc = "returned" =>
           /\ TasksOf(k) # {} => data_articles[k].pirate_resource = NoDoiStatus
           /\ TasksOf(k) = {} => data_articles[k].pirate_resource = NotChecked

\* C4 witness: a run with probing enabled returned a record built from an item
\* without DOI; its probe ran without a request and it reads "no identifier".
C4_Witness ==
  /\ pc = "returned"
  /\ Enabled
  /\ \E k \in 1..Len(data_articles) :
       /\ DoiAbsent(k)
       /\ data_articles[k].access # FREE
       /\ data_articles[k].pirate_resource = NoDoiStatus
       /\ \E t \in TasksOf(k) : tasks[t].state = "done" /\ ~tasks[t].requested

\* C5: a finished probe returned a status (it did not raise); a request that
\* timed out gives "timeout", one that failed otherwise gives "error".
C5_FailureStatuses ==
  \A t \in 1..Len(tasks) :
    tasks[t].state = "done" =>
      /\ tasks[t].result \in {NoDoiStatus, Found, NotFound, ErrorStatus, TimeoutStatus}
      /\ tasks[t].outcome = "TimeoutError" => tasks[t].result = TimeoutStatus
      /\ tasks[t].outcome = "ClientError" => tasks[t].result = ErrorStatus

\* C6: a non-empty URL containing the Creative Commons domain is classified
\* FREE, whatever else it contains.
C6_CreativeCommonsIsFree ==
  (classified # "none" /\ license_url # <<>>
     /\ In("creativecommons.org", Lower(license_url))) =>
    classified = FREE

\* C6 witness: a URL with the Creative Commons domain, the publisher domain and
\* a terms marker has been classified FREE.
C6_Witness ==
  /\ classified = FREE
  /\ In("creativecommons.org", Lower(license_url))
  /\ In("wiley.com", Lower(license_url))
  /\ In("terms", Lower(license_url))

\* C7: a record built from an item without license has access UNKNOWN, and
\* when its probe's response carries the "not found" marker the returned
\* record reads "not found".
C7_AbsentLicenseUnknown ==
  \A k \in 1..Len(data_articles) :
    LicenseAbsent(k) =>
      /\ data_articles[k].access = UNKNOWN
      /\ pc = "returned" =>
           \A t \in TasksOf(k) :
             tasks[t].outcome = "BodyWithMarker" =>
               data_articles[k].pirate_resource = NotFound

\* the journal identifiers actually present in the items built so far
PresentJournals ==
  {data_articles[k].journal_issn : k \in {j \in 1..Len(data_articles) : ~IssnAbsent(j)}}

\* C8: no journal is looked up twice, only journal identifiers present in the
\* batch are looked up (none for an item without ISSN), and a run that
\* returns has looked up each of them.
C8_OneLookupPerJournal ==
  /\ \A m, n \in 1..Len(lookups) : lookups[m] = lookups[n] => m = n
  /\ \A m \in 1..Len(lookups) : lookups[m] \in PresentJournals
  /\ Len(lookups) <= Cardinality(PresentJournals)
  /\ pc = "returned" => Len(lookups) = Cardinality(PresentJournals)

\* C9: once a cancelled run is over, no probe is still pending, exactly one
\* timeout has been reported and no record list was handed on.
C9_CancelledRun ==
  (exc = "CancelledError" /\ main_result # "running") =>
    /\ \A t \in 1..Len(tasks) : tasks[t].state # "pending"
    /\ timeout_reports = 1
    /\ main_result # "0"

\* C10: when process_articles is over, and from the moment its session is
\* closed and if_parser is called, every probe task it created has finished.
C10_ProbesJoined ==
  (ProcessOver \/ pc \in {"if_parser", "merge"}) =>
    \A t \in 1..Len(tasks) : tasks[t].state = "done"

\* C11: process_articles raises only when if_parser stopped at an unreadable
\* page; a malformed raw item never makes it raise, and once the building
\* loop is over there is one record per raw item.
C11_MalformedItemsTolerated ==
  /\ (pc = "raised" /\ exc \notin {"TimeoutError", "ClientError", "CancelledError"})
       => LayoutFailed
  /\ pc \in {"join", "if_parser", "merge", "returned"}
       => Len(data_articles) = Len(crossref_response)

\* the marker groups of the classifier, read off a (lower-cased) URL
HasCreativeCommons(url) == In("creativecommons.org", Lower(url))
HasPublisherTerms(url) ==
  In("wiley.com", Lower(url)) /\ (In("terms", Lower(url)) \/ In("copyright", Lower(url)))
HasPaywall(url) ==
  \E x \in {"rights-and-permissions", "subscription", "copyright"} : In(x, Lower(url))

\* the open-license markers of line 82 ("pd" abbreviates public domain)
HasOpenLicense(url) == \E x \in {"publicdomain", "pd", "cc0"} : In(x, Lower(url))

\* C12 as written: a non-empty URL with an open-license marker is classified
\* FREE; a non-empty URL with no Creative Commons, open-license,
\* publisher-terms or paywall marker is classified NOT_FREE.
C12_OpenLicenseIsFree ==
  (classified # "none" /\ license_url # <<>>) =>
    /\ HasOpenLicense(license_url) => classified = FREE
    /\ (/\ ~HasCreativeCommons(license_url)
        /\ ~HasOpenLicense(license_url)
        /\ ~HasPublisherTerms(license_url)
        /\ ~HasPaywall(license_url))
         => classified = NOT_FREE

\* C12 amended: a non-empty URL with an open-license marker and neither
\* publisher terms nor a paywall marker is classified FREE (those two are
\* tested first and give NOT_FREE); a non-empty URL with no Creative Commons,
\* open-license, publisher-terms or paywall marker is classified NOT_FREE.
C12_OpenLicenseWithoutPaywallIsFree ==
  (classified # "none" /\ license_url # <<>>) =>
    /\ (/\ HasOpenLicense(license_url)
        /\ ~HasPublisherTerms(license_url)
        /\ ~HasPaywall(license_url))
         => classified = FREE
    /\ (/\ ~HasCreativeCommons(license_url)
        /\ ~HasOpenLicense(license_url)
        /\ ~HasPublisherTerms(license_url)
        /\ ~HasPaywall(license_url))
         => classified = NOT_FREE

\* C12 witness: a URL with the CC0 marker, without the Creative Commons domain
\* and without paywall markers, has been classified FREE.
C12_Witness ==
  /\ classified = FREE
  /\ In("cc0", Lower(license_url))
  /\ ~HasCreativeCommons(license_url)
  /\ ~HasPaywall(license_url)
  /\ In("wiley.com", Lower(license_url))

\* C13: after a parse_json call, a document that lacks a required field or
\* has a field that fails validation gave None; None comes with at least one
\* recorded error; a SearchCriteria comes only with an empty error list.
C13_NoneWithErrors ==
  calls > 0 =>
    /\ json_data \notin GoodDocs => parse_result = None
    /\ (json_data.type = "dict"
          /\ \E k \in 1..Len(required_fields) :
               required_fields[k] \notin DOMAIN json_data.fields)
         => parse_result = None
    /\ parse_result = None => validation_errors # <<>>
    /\ parse_result.kind = "SearchCriteria" => validation_errors = <<>>

\* C13 witness: the second call on a parser got a well-formed document after
\* a failed first call; it returned None and the errors are still recorded.
C13_Witness ==
  /\ calls = 2
  /\ json_data \in GoodDocs
  /\ parse_result = None
  /\ validation_errors # <<>>

====
